---- MODULE Spec2Model ----
(***************************************************************************)
(* fmi-cli: the time-range chunk planner (_mk_limits) and the lazy chunked *)
(* retrieval generators (get_stored_query_chunked and                      *)
(* get_stored_query_chunked_bbox) of src/fmi_cli/api.py.                   *)
(*                                                                         *)
(* Datetimes are aware datetimes: a wall-clock reading in seconds and the  *)
(* zone it is read in.  Durations are whole seconds.  The pacing clock     *)
(* counts half seconds, the finest sleep the code takes.                   *)
(***************************************************************************)
EXTENDS Integers, Sequences, FiniteSets, TLC

VARIABLES
    mode,           \* "fmisid": get_stored_query_chunked, "bbox": ..._chunked_bbox
    bboxes,         \* the list of bounding boxes of a bbox sweep (box ids)
    start_time,     \* argument start_time (NoneDT when None)
    end_time,       \* argument end_time (NoneDT when None)
    resolution,     \* argument resolution, in seconds
    pc,             \* where the retrieval generator is suspended
    bi,             \* index in bboxes of the box last requested
    cur,            \* loop variables (start, end) of the retrieval generator
    lims,           \* the _mk_limits generator held by the retrieval generator
    chunks,         \* every (start, end) _mk_limits has yielded, in order
    requests,       \* every HTTP request issued, in order
    outcomes,       \* what each next() of the consumer got, in order
    recent,         \* age, in half seconds, of each request of the last Window
    session,        \* the requests.Session of the retrieval
    entry,          \* "multipoint": get_stored_query_multipoint, "multipoint_all"
    query_id,       \* argument query_id of the multipoint retrieval
    pulled,         \* the documents the parser has taken from obs, in order
    yielded,        \* how many tuples of the last document the parser yielded
    parsed,         \* every tuple the parser has yielded, in order
    ppc,            \* where the parser generator is
    raised,         \* the error that left the parser, and the document it is of
    ret,            \* what get_stored_query_multipoint returned and logged
    call,           \* the arguments of a direct call of get_stored_query
    params          \* the parameters that call handed to query_wfs

vars == <<mode, bboxes, start_time, end_time, resolution, pc, bi, cur, lims,
          chunks, requests, outcomes, recent, session,
          entry, query_id, pulled, yielded, parsed, ppc, raised, ret,
                call, params>>

----------------------------------------------------------------------------
(* Bounds of the model.                                                    *)

MaxChunks == 4          \* chunks one planner is stepped through
MaxBoxes == 4           \* boxes in a sweep
MaxLatency == 1         \* half seconds from a request to the next resume
Window == 3             \* half seconds of the sliding window of request ages
MaxExtraNext == 2       \* next() calls made on a finished generator

----------------------------------------------------------------------------
(* Python arithmetic.                                                      *)

Min(a, b) == IF b < a THEN b ELSE a

\* a // b for b # 0: rounds towards minus infinity.
PyFloorDiv(a, b) == a \div b

\* a % b for b # 0: takes the sign of the divisor.
PyMod(a, b) == a - b * (a \div b)

Hour == 60 * 60
Day == 24 * 60 * 60
Week == 7 * 24 * 60 * 60
MaxSteps == 168

----------------------------------------------------------------------------
(* Aware datetimes.  Zone "HEL" is Europe/Helsinki around the end of       *)
(* summer time on 2014-10-26 01:00 UTC; second 0 is 2014-10-23 00:00 of    *)
(* the zone the reading is in.                                             *)

HelSummerOffset == 3 * 60 * 60
HelWinterOffset == 2 * 60 * 60
HelTransition == (3 * 24 + 1) * 60 * 60   \* UTC seconds of the change

NoneDT == [wall |-> 0, tz |-> "None"]
IsNone(dt) == dt.tz = "None"
DT(wall, tz) == [wall |-> wall, tz |-> tz]

\* datetime.utcoffset() (fold = 0: the first of two equal readings).
utcoffset(dt) ==
    IF dt.tz = "HEL"
    THEN IF dt.wall < HelTransition + HelSummerOffset
         THEN HelSummerOffset ELSE HelWinterOffset
    ELSE 0

\* datetime.timestamp(), in seconds since 2014-10-23 00:00 UTC.
timestamp(dt) == dt.wall - utcoffset(dt)

\* datetime.astimezone(UTC)
astimezone(dt) == DT(timestamp(dt), "UTC")

\* datetime + timedelta keeps the zone and moves the wall-clock reading.
dt_add(dt, secs) == DT(dt.wall + secs, dt.tz)

\* a <= b and a < b of aware datetimes: by reading within one zone, by
\* instant across zones.
dt_le(a, b) == IF a.tz = b.tz THEN a.wall <= b.wall ELSE timestamp(a) <= timestamp(b)
dt_lt(a, b) == IF a.tz = b.tz THEN a.wall < b.wall ELSE timestamp(a) < timestamp(b)

\* min(a, b) of Python: b only when b < a.
dt_min(a, b) == IF dt_lt(b, a) THEN b ELSE a

----------------------------------------------------------------------------
(* _mk_limits.                                                             *)

total_seconds(res) == res

\* The two validity checks; 3600 % 0 raises ZeroDivisionError.
check_resolution(secs) ==
    IF secs > Hour /\ PyMod(Day, secs) # 0 THEN "ValueError"
    ELSE IF secs < Hour /\ secs = 0 THEN "ZeroDivisionError"
    ELSE IF secs < Hour /\ PyMod(Hour, secs) # 0 THEN "ValueError"
    ELSE "ok"

\* diff = timedelta(seconds=min(7 * 24 * 60 * 60 // secs, 168) * secs)
chunk_diff(secs) == Min(PyFloorDiv(Week, secs), MaxSteps) * secs

NoChunk == [start |-> NoneDT, end |-> NoneDT]

\* The generator object _mk_limits(start_time, end_time, resolution) returns:
\* nothing of the body has run yet.
mk_limits(st, et, res) ==
    [pc |-> "unstarted", start_time |-> st, end_time |-> et, resolution |-> res,
     diff |-> 0, start |-> NoneDT, end |-> NoneDT]

\* The while loop from its test on: yields (start, end) or returns.
mk_limits_loop(l, start) ==
    IF dt_le(start, l.end_time)
    THEN LET end == dt_min(dt_add(start, l.diff), l.end_time)
         IN  [lims |-> [l EXCEPT !.pc = "suspended", !.start = start, !.end = end],
              out |-> "yield", chunk |-> [start |-> start, end |-> end]]
    ELSE [lims |-> [l EXCEPT !.pc = "finished", !.start = start],
          out |-> "StopIteration", chunk |-> NoChunk]

\* start = end + resolution, the statement after the yield.
next_start(end, res) == dt_add(end, res)

\* next(lims): runs the body to its next yield, return or raise.
mk_limits_next(l) ==
    IF l.pc = "unstarted"
    THEN LET secs == total_seconds(l.resolution)
             st == astimezone(l.start_time)
             et == astimezone(l.end_time)
             chk == check_resolution(secs)
         IN  IF chk # "ok"
             THEN [lims |-> [l EXCEPT !.pc = "finished", !.start_time = st,
                                      !.end_time = et],
                   out |-> chk, chunk |-> NoChunk]
             ELSE mk_limits_loop([l EXCEPT !.start_time = st, !.end_time = et,
                                           !.diff = chunk_diff(secs)], st)
    ELSE IF l.pc = "suspended"
    THEN mk_limits_loop(l, next_start(l.end, l.resolution))
    ELSE [lims |-> l, out |-> "StopIteration", chunk |-> NoChunk]

----------------------------------------------------------------------------
(* Requests, pacing and the session.                                       *)

BoxPause == 1           \* sleep(0.5), in half seconds
ChunkPause == 2         \* sleep(1), in half seconds

sleep_skipped(t, d) == t

sleep_halved(t, d) == t + d \div 2

\* time.sleep(d), t half seconds after the generator was resumed: the time
\* since the resume when it returns.
sleep(t, d) == t + d

\* d half seconds pass: the ages of the requests still inside the window.
Age(ages, d) == SelectSeq([i \in 1..Len(ages) |-> ages[i] + d], LAMBDA a : a < Window)

Fmisid == [kind |-> "fmisid", id |-> 0]
Bbox(b) == [kind |-> "bbox", id |-> b]

box_at_reversed(bxs, i) == Bbox(bxs[Len(bxs) + 1 - i])

\* `for bbox in bboxes`: the place of the i-th pass of the loop.
box_at(bxs, i) == Bbox(bxs[i])

get_stored_query_epoch_bounds(place, st, et, res) ==
    [place |-> place,
     starttime |-> IF IsNone(st) THEN DT(0, "UTC") ELSE astimezone(st),
     endtime |-> IF IsNone(et) THEN DT(0, "UTC") ELSE astimezone(et),
     timestep |-> PyFloorDiv(total_seconds(res), 60)]

\* The parameters get_stored_query builds: bounds rendered in UTC when given,
\* timestep in whole minutes.
get_stored_query(place, st, et, res) ==
    [place |-> place,
     starttime |-> IF IsNone(st) THEN NoneDT ELSE astimezone(st),
     endtime |-> IF IsNone(et) THEN NoneDT ELSE astimezone(et),
     timestep |-> PyFloorDiv(total_seconds(res), 60)]

query_wfs_twice(log, req) == Append(Append(log, req), req)

\* query_wfs / _query: one HTTP GET, appended to the log of requests.
query_wfs(log, req) == Append(log, req)

raise_for_status_ignored(ok) == "document"

\* _raise_for_status and ET.fromstring: a document, or the error raised.
raise_for_status(ok) == IF ok THEN "document" ELSE "HTTPError"

\* `with session ... as s` in query_wfs closes the session it was handed
\* when the block is left; `with init_session() as s` in the generator
\* closes it when the generator returns, raises or is closed.
session_enter == [opened |-> TRUE, closes |-> 0, exited |-> FALSE]
session_query(s) == [s EXCEPT !.closes = @ + 1]
session_exit(s) == [s EXCEPT !.closes = @ + 1, !.exited = TRUE]

Outcome(kind, doc, late) == [kind |-> kind, doc |-> doc, late |-> late]

Suspended == {"y123", "y130", "y136", "y157", "y166", "y174"}

InputsUnchanged ==
    UNCHANGED <<mode, bboxes, start_time, end_time, resolution,
                entry, query_id, pulled, yielded, parsed, ppc, raised, ret,
                call, params>>

\* The generator issues one get_stored_query t half seconds after it was
\* resumed; the answer and the consumer take lat half seconds; the document is
\* yielded at ypc, or the error of the request propagates.
Fetch(s, place, ch, idx, t, lat, ok, ypc) ==
    LET res == raise_for_status(ok)
        req == get_stored_query(place, ch.start, ch.end, resolution) @@
               [chunk |-> idx, slept |-> t, ok |-> ok]
    IN  /\ requests' = query_wfs(requests, req)
        /\ recent' = Age(Append(Age(recent, t), 0), lat)
        /\ outcomes' = Append(outcomes, Outcome(res, Len(requests'), FALSE))
        /\ pc' = IF res = "document" THEN ypc ELSE "finished"
        /\ session' = IF res = "document" THEN session_query(s)
                      ELSE session_exit(session_query(s))

\* The generator ends without a request: it returns (StopIteration) or an
\* exception leaves it.
Finish(s, t, kind) ==
    /\ pc' = "finished"
    /\ recent' = Age(recent, t)
    /\ outcomes' = Append(outcomes, Outcome(kind, 0, FALSE))
    /\ session' = session_exit(s)
    /\ UNCHANGED requests

first_error_as_raised(out) == out

\* next(lims) inside the generator body, before the first chunk: a
\* StopIteration raised inside a generator body becomes RuntimeError.
first_error(out) == IF out = "StopIteration" THEN "RuntimeError" ELSE out

----------------------------------------------------------------------------
(* get_stored_query called directly: the request parameters as the         *)
(* dictionary of texts that goes to the service.                           *)

NoParams == [key \in {} |-> ""]
NoCall == [query_id |-> "", called |-> FALSE]

\* Optional arguments: None, or a value.
None == [given |-> FALSE]
Some(v) == [given |-> TRUE, value |-> v]

\* place: an int, or a tuple of floats (kept in tenths).
IntPlace(n) == [kind |-> "int", fmisid |-> n]
TuplePlace(t) == [kind |-> "tuple", bbox |-> t]

\* str(x) of an int and of a float.
str_int(n) == ToString(n)
str_float(tenths) == ToString(tenths \div 10) \o "." \o ToString(tenths % 10)

\* sep.join(texts)
RECURSIVE join(_, _)
join(sep, texts) ==
    IF Len(texts) = 0 THEN ""
    ELSE IF Len(texts) = 1 THEN texts[1]
    ELSE texts[1] \o sep \o join(sep, Tail(texts))

TwoDigits(n) == IF n < 10 THEN "0" \o ToString(n) ELSE ToString(n)

\* dt.strftime("%FT%TZ"): the reading of dt, in whatever zone dt is, for
\* readings from 2014-10-23 to the end of that month.
strftime(dt) ==
    "2014-10-" \o TwoDigits(23 + (dt.wall \div Day)) \o "T" \o
    TwoDigits((dt.wall % Day) \div Hour) \o ":" \o
    TwoDigits((dt.wall % Hour) \div 60) \o ":" \o
    TwoDigits(dt.wall % 60) \o "Z"

\* WFS_PARAMS
WFS_PARAMS == [service |-> "WFS", version |-> "2.0.0"]

Param(cond, key, text) == IF cond THEN key :> text ELSE NoParams

get_stored_query_params_local(c) ==
    (Param(TRUE, "request", "getFeature")
     @@ Param(TRUE, "storedquery_id", c.query_id)
     @@ Param(c.place.kind = "int", "fmisid", str_int(c.place.fmisid))
     @@ Param(c.place.kind = "tuple", "bbox",
              join(",", [i \in 1..Len(c.place.bbox) |-> str_float(c.place.bbox[i])]))
     @@ Param(~IsNone(c.start_time), "starttime", strftime(c.start_time))
     @@ Param(~IsNone(c.end_time), "endtime", strftime(c.end_time))
     @@ Param(c.resolution.given, "timestep",
              str_int(PyFloorDiv(total_seconds(c.resolution.value), 60)))
     @@ Param(c.parameters.given /\ Len(c.parameters.value) > 0, "parameters",
              join(",", c.parameters.value)))
    @@ WFS_PARAMS

\* get_stored_query and query_wfs: WFS_PARAMS | params, with the keys
\* get_stored_query sets.
get_stored_query_params(c) ==
    (Param(TRUE, "request", "getFeature")
     @@ Param(TRUE, "storedquery_id", c.query_id)
     @@ Param(c.place.kind = "int", "fmisid", str_int(c.place.fmisid))
     @@ Param(c.place.kind = "tuple", "bbox",
              join(",", [i \in 1..Len(c.place.bbox) |-> str_float(c.place.bbox[i])]))
     @@ Param(~IsNone(c.start_time), "starttime",
              strftime(astimezone(c.start_time)))
     @@ Param(~IsNone(c.end_time), "endtime", strftime(astimezone(c.end_time)))
     @@ Param(c.resolution.given, "timestep",
              str_int(PyFloorDiv(total_seconds(c.resolution.value), 60)))
     @@ Param(c.parameters.given /\ Len(c.parameters.value) > 0, "parameters",
              join(",", c.parameters.value)))
    @@ WFS_PARAMS

\* One call of get_stored_query.
GetStoredQuery ==
    /\ ~call.called
    /\ call' = [call EXCEPT !.called = TRUE]
    /\ params' = get_stored_query_params(call)
    /\ UNCHANGED <<mode, bboxes, start_time, end_time, resolution, pc, bi, cur,
                   lims, chunks, requests, outcomes, recent, session,
                   entry, query_id, pulled, yielded, parsed, ppc, raised, ret>>

----------------------------------------------------------------------------
(* get_stored_query_chunked.                                               *)

\* First next(), start_time or end_time is None: the single request.
ChunkedOpenEnded ==
    /\ mode = "fmisid" /\ pc = "created"
    /\ IsNone(start_time) \/ IsNone(end_time)
    /\ \E lat \in 0..MaxLatency, ok \in BOOLEAN :
          Fetch(session_enter, Fmisid, [start |-> start_time, end |-> end_time],
                0, 0, lat, ok, "y123")
    /\ UNCHANGED <<bi, cur, lims, chunks>>
    /\ InputsUnchanged

\* Resumed after the single request: return.
ChunkedOpenEndedReturn ==
    /\ mode = "fmisid" /\ pc = "y123"
    /\ Finish(session, 0, "StopIteration")
    /\ UNCHANGED <<bi, cur, lims, chunks>>
    /\ InputsUnchanged

\* First next(), both bounds given: lims, next(lims) and the first request.
ChunkedFirst ==
    /\ mode = "fmisid" /\ pc = "created"
    /\ ~IsNone(start_time) /\ ~IsNone(end_time)
    /\ LET r == mk_limits_next(mk_limits(start_time, end_time, resolution))
       IN  /\ lims' = r.lims
           /\ IF r.out = "yield"
              THEN /\ chunks' = Append(chunks, r.chunk)
                   /\ cur' = r.chunk
                   /\ \E lat \in 0..MaxLatency, ok \in BOOLEAN :
                         Fetch(session_enter, Fmisid, r.chunk, Len(chunks) + 1, 0,
                               lat, ok, "y130")
              ELSE /\ Finish(session_enter, 0, first_error(r.out))
                   /\ UNCHANGED <<chunks, cur>>
    /\ UNCHANGED bi
    /\ InputsUnchanged

\* Resumed after a chunk: the for loop over lims, sleep(1), the next request.
ChunkedLoop ==
    /\ mode = "fmisid" /\ pc \in {"y130", "y136"}
    /\ Len(chunks) < MaxChunks
    /\ LET r == mk_limits_next(lims)
       IN  /\ lims' = r.lims
           /\ IF r.out = "yield"
              THEN /\ chunks' = Append(chunks, r.chunk)
                   /\ cur' = r.chunk
                   /\ \E lat \in 0..MaxLatency, ok \in BOOLEAN :
                         Fetch(session, Fmisid, r.chunk, Len(chunks) + 1,
                               sleep(0, ChunkPause), lat, ok, "y136")
              ELSE /\ Finish(session, 0, r.out)
                   /\ UNCHANGED <<chunks, cur>>
    /\ UNCHANGED bi
    /\ InputsUnchanged

----------------------------------------------------------------------------
(* get_stored_query_chunked_bbox.                                          *)

\* First next(), start_time or end_time is None: the request for the first
\* box of the single sweep.
BboxOpenEnded ==
    /\ mode = "bbox" /\ pc = "created"
    /\ IsNone(start_time) \/ IsNone(end_time)
    /\ bi' = 1
    /\ \E lat \in 0..MaxLatency, ok \in BOOLEAN :
          Fetch(session_enter, box_at(bboxes, 1),
                [start |-> start_time, end |-> end_time], 0, 0, lat, ok, "y157")
    /\ UNCHANGED <<cur, lims, chunks>>
    /\ InputsUnchanged

\* Resumed in the single sweep: sleep(0.5), then the next box or return.
BboxOpenEndedNext ==
    /\ mode = "bbox" /\ pc = "y157"
    /\ IF bi < Len(bboxes)
       THEN /\ bi' = bi + 1
            /\ \E lat \in 0..MaxLatency, ok \in BOOLEAN :
                  Fetch(session, box_at(bboxes, bi + 1),
                        [start |-> start_time, end |-> end_time], 0,
                        sleep(0, BoxPause), lat, ok, "y157")
       ELSE /\ Finish(session, sleep(0, BoxPause), "StopIteration")
            /\ UNCHANGED bi
    /\ UNCHANGED <<cur, lims, chunks>>
    /\ InputsUnchanged

\* First next(), both bounds given: lims, next(lims) and the first box of the
\* first chunk.
BboxFirst ==
    /\ mode = "bbox" /\ pc = "created"
    /\ ~IsNone(start_time) /\ ~IsNone(end_time)
    /\ LET r == mk_limits_next(mk_limits(start_time, end_time, resolution))
       IN  /\ lims' = r.lims
           /\ IF r.out = "yield"
              THEN /\ chunks' = Append(chunks, r.chunk)
                   /\ cur' = r.chunk
                   /\ bi' = 1
                   /\ \E lat \in 0..MaxLatency, ok \in BOOLEAN :
                         Fetch(session_enter, box_at(bboxes, 1), r.chunk,
                               Len(chunks) + 1, 0, lat, ok, "y166")
              ELSE /\ Finish(session_enter, 0, first_error(r.out))
                   /\ UNCHANGED <<chunks, cur, bi>>
    /\ InputsUnchanged

\* Resumed inside a sweep with boxes left: sleep(0.5), the next box of the
\* same chunk.
BboxNextBox ==
    /\ mode = "bbox" /\ pc \in {"y166", "y174"}
    /\ bi < Len(bboxes)
    /\ bi' = bi + 1
    /\ \E lat \in 0..MaxLatency, ok \in BOOLEAN :
          Fetch(session, box_at(bboxes, bi + 1), cur, Len(chunks),
                sleep(0, BoxPause), lat, ok, pc)
    /\ UNCHANGED <<cur, lims, chunks>>
    /\ InputsUnchanged

\* Resumed after the last box of a sweep: sleep(0.5), the for loop over
\* lims, sleep(1), the first box of the next chunk.
BboxNextChunk ==
    /\ mode = "bbox" /\ pc \in {"y166", "y174"}
    /\ bi = Len(bboxes)
    /\ Len(chunks) < MaxChunks
    /\ LET r == mk_limits_next(lims)
           t == sleep(0, BoxPause)
       IN  /\ lims' = r.lims
           /\ IF r.out = "yield"
              THEN /\ chunks' = Append(chunks, r.chunk)
                   /\ cur' = r.chunk
                   /\ bi' = 1
                   /\ \E lat \in 0..MaxLatency, ok \in BOOLEAN :
                         Fetch(session, box_at(bboxes, 1), r.chunk, Len(chunks) + 1,
                               sleep(t, ChunkPause), lat, ok, "y174")
              ELSE /\ Finish(session, t, r.out)
                   /\ UNCHANGED <<chunks, cur, bi>>
    /\ InputsUnchanged

----------------------------------------------------------------------------
(* The consumer.                                                           *)

LateNexts == Cardinality({i \in 1..Len(outcomes) : outcomes[i].late})

\* next() on a generator that has returned, raised or been closed.
NextFinished ==
    /\ pc \in {"finished", "closed"}
    /\ LateNexts < MaxExtraNext
    /\ outcomes' = Append(outcomes, Outcome("StopIteration", 0, TRUE))
    /\ UNCHANGED <<pc, bi, cur, lims, chunks, requests, recent, session>>
    /\ InputsUnchanged

\* The consumer stops and drops the generator: GeneratorExit at the yield
\* leaves the with block.
Close ==
    /\ pc \in Suspended
    /\ pc' = "closed"
    /\ session' = session_exit(session)
    /\ UNCHANGED <<bi, cur, lims, chunks, requests, outcomes, recent>>
    /\ InputsUnchanged

----------------------------------------------------------------------------
(* Answers of the service, as the coverage decoder of                      *)
(* src/fmi_cli/xml_helpers.py reads them.  A document keeps the elements   *)
(* the decoder looks for: the GridSeriesObservation member, its sampling   *)
(* feature with the points of the stations, and the coverage with its      *)
(* field list, positions block and data block.  A block is the list of its *)
(* lines, a line the list of its space-separated texts (<<>> for a blank   *)
(* line); a gml:id is the list of the pieces between its '-'.              *)

MaxRecords == 2         \* records in a positions or data block
MaxDocs == 2            \* documents one retrieval hands to the decoder

\* The numbers that are written in the documents.
Numbers == (0..99) \cup {k * Hour : k \in 0..(MaxRecords + 1)}

\* Decimal text to number, for the texts the documents hold.
NumberOf == [t \in {ToString(n) : n \in Numbers} |->
                CHOOSE n \in Numbers : ToString(n) = t]

\* Floats: a number or nan.
NaN == [nan |-> TRUE, x |-> 0]
Num(n) == [nan |-> FALSE, x |-> n]

\* int(text) and float(text) raise ValueError for a text that is no number.
is_int(text) == text \in DOMAIN NumberOf
py_int(text) == NumberOf[text]
py_float(text) == IF text = "NaN" THEN NaN ELSE Num(NumberOf[text])

\* datetime.fromtimestamp(secs, UTC)
fromtimestamp(secs) == DT(secs, "UTC")

FmisidFeature == "sampling-feature-1-1-fmisid"

Document(member, feature, container, points, coverage, fields, positions, data) ==
    [member |-> member, feature |-> feature, container |-> container,
     points |-> points, coverage |-> coverage, fields |-> fields,
     positions |-> positions, data |-> data]

SamplingPoint(id, lat, lon, srs) == [id |-> id, pos |-> <<lat, lon>>, srs |-> srs]

\* What a generator gives when it is drained: the items it yields, then the
\* error that leaves it ("none" when it returns).
Trace(items, err) == [items |-> items, err |-> err]

----------------------------------------------------------------------------
(* The coverage decoder.                                                   *)

\* get_space_separated: the lines of a block, blank lines skipped.
get_space_separated(lines) == SelectSeq(lines, LAMBDA l : Len(l) > 0)

\* int(id_.split("-")[1]): the second piece of the identifier, as a number.
fmisid_of(id) ==
    IF Len(id) < 2 THEN [err |-> "IndexError", fmisid |-> 0]
    ELSE IF ~is_int(id[2]) THEN [err |-> "ValueError", fmisid |-> 0]
    ELSE [err |-> "none", fmisid |-> py_int(id[2])]

\* locs.findall(".../gml:pointMember/gml:Point") and
\* findall(".../gml:pointMembers/gml:Point"): the points under that element.
find_points(doc, container) ==
    IF doc.feature # "missing" /\ doc.container = container
    THEN doc.points ELSE <<>>

\* get_fmisid_map: (lat, lon) -> fmisid of the points of the sampling
\* feature, a later point replacing an earlier one at the same coordinate.
get_fmisid_map(doc) ==
    LET pts == find_points(doc, "pointMember")
        bad == {i \in 1..Len(pts) : fmisid_of(pts[i].id).err # "none"}
        first_bad == CHOOSE i \in bad : \A j \in bad : i <= j
        coord(i) == <<py_float(pts[i].pos[1]), py_float(pts[i].pos[2])>>
        last_at(c) == CHOOSE i \in 1..Len(pts) :
                         /\ coord(i) = c
                         /\ \A j \in 1..Len(pts) : coord(j) = c => j <= i
    IN  IF doc.feature = "missing" \/ doc.feature # FmisidFeature
        THEN [err |-> "ValueError", mapping |-> <<>>]
        ELSE IF bad # {}
        THEN [err |-> fmisid_of(pts[first_bad].id).err, mapping |-> <<>>]
        ELSE [err |-> "none",
              mapping |-> [c \in {coord(i) : i \in 1..Len(pts)} |->
                              fmisid_of(pts[last_at(c)].id).fmisid]]

\* get_projection: the one srsName of the points, or ValueError.
get_projection(doc) ==
    LET pts == find_points(doc, "pointMembers")
        projs == {pts[i].srs : i \in 1..Len(pts)}
    IN  IF Cardinality(projs) # 1
        THEN [err |-> "ValueError", projection |-> ""]
        ELSE [err |-> "none", projection |-> CHOOSE x \in projs : TRUE]

\* get_lat_lons: (lat, lon, ts) of each record of the positions block.
get_lat_lons(doc) ==
    LET recs == get_space_separated(doc.positions)
    IN  [i \in 1..Len(recs) |->
            [lat |-> py_float(recs[i][1]), lon |-> py_float(recs[i][2]),
             ts |-> fromtimestamp(py_int(recs[i][3]))]]

\* get_obs_types: the names of the fields, in document order.
get_obs_types(doc) == doc.fields

get_data_block_without_nan(doc) ==
    LET obs_types == get_obs_types(doc)
        recs == get_space_separated(doc.data)
    IN  [i \in 1..Len(recs) |->
            IF Len(recs[i]) # Len(obs_types)
            THEN [err |-> "ValueError", obs |-> <<>>]
            ELSE [err |-> "none",
                  obs |-> SelectSeq([j \in 1..Len(obs_types) |->
                                        [k |-> obs_types[j],
                                         v |-> py_float(recs[i][j])]],
                                    LAMBDA o : ~o.v.nan)]]

\* get_data_block: each record of the data block zipped (strict) with the
\* field names; a record with another number of columns raises ValueError.
get_data_block(doc) ==
    LET obs_types == get_obs_types(doc)
        recs == get_space_separated(doc.data)
    IN  [i \in 1..Len(recs) |->
            IF Len(recs[i]) # Len(obs_types)
            THEN [err |-> "ValueError", obs |-> <<>>]
            ELSE [err |-> "none",
                  obs |-> [j \in 1..Len(obs_types) |->
                              [k |-> obs_types[j], v |-> py_float(recs[i][j])]]]]

zip_shortest(n, m) == "none"

\* zip(..., strict=True) when one side is exhausted: ValueError unless the
\* other is exhausted too.
zip_strict(n, m) == IF n = m THEN "none" ELSE "ValueError"

\* The loop of _parse_multipoint from record i on.
RECURSIVE parse_records(_, _, _)
parse_records(lat_lons, data, i) ==
    IF i > Len(lat_lons) \/ i > Len(data)
    THEN Trace(<<>>, IF i <= Len(data) /\ data[i].err # "none"
                     THEN data[i].err
                     ELSE zip_strict(Len(lat_lons), Len(data)))
    ELSE IF data[i].err # "none" THEN Trace(<<>>, data[i].err)
    ELSE LET rest == parse_records(lat_lons, data, i + 1)
             here == [j \in 1..Len(data[i].obs) |->
                         [lat |-> lat_lons[i].lat, lon |-> lat_lons[i].lon,
                          ts |-> lat_lons[i].ts,
                          k |-> data[i].obs[j].k, v |-> data[i].obs[j].v]]
         IN  Trace(here \o rest.items, rest.err)

parse_multipoint_requiring_coverage(doc) ==
    IF ~(doc.member /\ doc.coverage) THEN Trace(<<>>, "ValueError")
    ELSE parse_records(get_lat_lons(doc), get_data_block(doc), 1)

\* _parse_multipoint: nothing for a document without a coverage.
parse_multipoint(doc) ==
    IF ~(doc.member /\ doc.coverage) THEN Trace(<<>>, "none")
    ELSE parse_records(get_lat_lons(doc), get_data_block(doc), 1)

Coord(t) == <<t.lat, t.lon>>

\* The first item of a trace a parser cannot place, or one past the last.
first_unplaced(items, mapping) ==
    LET unknown == {i \in 1..Len(items) : Coord(items[i]) \notin DOMAIN mapping}
    IN  IF unknown = {} THEN Len(items) + 1
        ELSE CHOOSE i \in unknown : \A j \in unknown : i <= j

\* parse_multipoint_fmisids, one document: skipped without a member; the map
\* of this document, then each decoded tuple with the station at its
\* coordinate, ValueError at the first coordinate the map does not hold.
parse_multipoint_fmisids(doc) ==
    LET fm == get_fmisid_map(doc)
        t == parse_multipoint(doc)
        stop == first_unplaced(t.items, fm.mapping)
    IN  IF ~doc.member THEN Trace(<<>>, "none")
        ELSE IF fm.err # "none" THEN Trace(<<>>, fm.err)
        ELSE Trace([i \in 1..(stop - 1) |->
                       [who |-> [fmisid |-> fm.mapping[Coord(t.items[i])]],
                        dt |-> t.items[i].ts, k |-> t.items[i].k,
                        v |-> t.items[i].v]],
                   IF stop <= Len(t.items) THEN "ValueError" ELSE t.err)

\* parse_multipoint_points, one document: skipped without a member; the
\* projection of this document, then each decoded tuple as a Point.
parse_multipoint_points(doc) ==
    LET pr == get_projection(doc)
        t == parse_multipoint(doc)
    IN  IF ~doc.member THEN Trace(<<>>, "none")
        ELSE IF pr.err # "none" THEN Trace(<<>>, pr.err)
        ELSE Trace([i \in 1..Len(t.items) |->
                       [who |-> [lat |-> t.items[i].lat, lon |-> t.items[i].lon,
                                 projection |-> pr.projection],
                        dt |-> t.items[i].ts, k |-> t.items[i].k,
                        v |-> t.items[i].v]],
                   t.err)

----------------------------------------------------------------------------
(* get_stored_query_multipoint and get_stored_query_multipoint_all: a      *)
(* parser generator over obs, the chunked retrieval.  obs is taken through *)
(* its iterator: each next(obs) gives a document, raises the error of the  *)
(* request, or ends.  get_stored_query_multipoint drains the parser into a *)
(* list before it returns; get_stored_query_multipoint_all hands each      *)
(* tuple to its caller as the parser yields it.                            *)

NoError == [err |-> "none", elem |-> 0]
NotReturned == [done |-> FALSE, list |-> <<>>, warned |-> FALSE]

\* "forecast" in query_id
has_forecast(q) == q \in {"fmi::forecast::silam::airquality::surface::point"}

\* parser = parse_multipoint_points if "forecast" in query_id else
\* parse_multipoint_fmisids; get_stored_query_multipoint_all always the latter.
parser(doc) ==
    IF entry = "multipoint" /\ has_forecast(query_id)
    THEN parse_multipoint_points(doc)
    ELSE parse_multipoint_fmisids(doc)

\* The document the parser is at, and what decoding it gives.
elem == pulled[Len(pulled)]
elem_trace_first_map ==
    parser([elem EXCEPT !.feature = pulled[1].feature,
                        !.container = pulled[1].container,
                        !.points = pulled[1].points])
elem_trace == parser(elem)

\* The parser is at `for elem in elems`: before the first document, or the
\* generator of the last one is exhausted.
AtNextElem ==
    /\ ppc \in {"created", "running"}
    /\ Len(pulled) > 0 =>
          yielded = Len(elem_trace.items) /\ elem_trace.err = "none"

\* [(dt, k, v) for _, dt, k, v in parser(obs)]
strip(items) == [i \in 1..Len(items) |->
                    [dt |-> items[i].dt, k |-> items[i].k, v |-> items[i].v]]

\* The completeness check: len_exp > len({dt for dt, _, _ in res}) with
\* len_exp = (end - start) / resolution, a float division, for a
\* resolution above zero; skipped when a bound is None.
completeness_check(st, et, resol, lst) ==
    /\ ~IsNone(st) /\ ~IsNone(et)
    /\ timestamp(astimezone(et)) - timestamp(astimezone(st)) >
          Cardinality({lst[i].dt : i \in 1..Len(lst)}) * resol

PipelineUnchanged ==
    UNCHANGED <<mode, bboxes, start_time, end_time, resolution, pc, bi, cur,
                lims, chunks, requests, outcomes, recent, session,
                entry, query_id, call, params>>

\* next(obs) gives a document.
ParserPullDoc(d) ==
    /\ Len(pulled) < MaxDocs
    /\ AtNextElem
    /\ pulled' = Append(pulled, d)
    /\ yielded' = 0
    /\ ppc' = "running"
    /\ UNCHANGED <<parsed, raised, ret>>
    /\ PipelineUnchanged

\* next(obs) raises: the error leaves the parser and the entry point.
ParserPullError ==
    /\ AtNextElem
    /\ ppc' = "failed"
    /\ raised' = [err |-> raise_for_status(FALSE), elem |-> 0]
    /\ UNCHANGED <<pulled, yielded, parsed, ret>>
    /\ PipelineUnchanged

ParserPullStopRaising ==
    /\ AtNextElem
    /\ Len(pulled) > 0
    /\ LET short == /\ entry = "multipoint"
                    /\ completeness_check(start_time, end_time, resolution,
                                          strip(parsed))
       IN  /\ ppc' = IF short THEN "failed" ELSE "finished"
           /\ raised' = IF short THEN [err |-> "ValueError", elem |-> 0]
                         ELSE raised
           /\ ret' = IF entry = "multipoint" /\ ~short
                     THEN [done |-> TRUE, list |-> strip(parsed), warned |-> FALSE]
                     ELSE ret
    /\ UNCHANGED <<pulled, yielded, parsed>>
    /\ PipelineUnchanged

\* obs is exhausted: the parser returns, and get_stored_query_multipoint
\* runs the completeness check and returns the list.
ParserPullStop ==
    /\ AtNextElem
    /\ Len(pulled) > 0
    /\ ppc' = "finished"
    /\ ret' = IF entry = "multipoint"
              THEN [done |-> TRUE, list |-> strip(parsed),
                    warned |-> completeness_check(start_time, end_time,
                                                  resolution, strip(parsed))]
              ELSE ret
    /\ UNCHANGED <<pulled, yielded, parsed, raised>>
    /\ PipelineUnchanged

\* The parser yields the next tuple of the document it is at.
ParserYield ==
    /\ ppc = "running"
    /\ yielded < Len(elem_trace.items)
    /\ parsed' = Append(parsed, elem_trace.items[yielded + 1] @@
                          [elem |-> Len(pulled)])
    /\ yielded' = yielded + 1
    /\ UNCHANGED <<pulled, ppc, raised, ret>>
    /\ PipelineUnchanged

ParserSwallow ==
    /\ ppc = "running"
    /\ yielded = Len(elem_trace.items)
    /\ elem_trace.err # "none"
    /\ ppc' = "finished"
    /\ ret' = IF entry = "multipoint"
              THEN [done |-> TRUE, list |-> strip(parsed), warned |-> FALSE]
              ELSE ret
    /\ UNCHANGED <<pulled, yielded, parsed, raised>>
    /\ PipelineUnchanged

\* Decoding the document raises after the tuples it could yield.
ParserRaise ==
    /\ ppc = "running"
    /\ yielded = Len(elem_trace.items)
    /\ elem_trace.err # "none"
    /\ ppc' = "failed"
    /\ raised' = [err |-> elem_trace.err, elem |-> Len(pulled)]
    /\ UNCHANGED <<pulled, yielded, parsed, ret>>
    /\ PipelineUnchanged

----------------------------------------------------------------------------
(* The calls explored.                                                     *)

Resolutions ==
    {0 - 60, 0, 30, 7 * 60, 10 * 60, Hour, 5 * Hour, Day, 2 * Day}

StartTimes == {DT(0, "UTC"), DT(20 * 60, "UTC"), DT(15 * Hour, "HEL")}

Spans == {0 - Hour, 0, Hour + 30 * 60, Week, Week + Hour, 15 * Day}

BoxLists == {[i \in 1..n |-> i] : n \in 1..MaxBoxes}

Init ==
    /\ mode \in {"fmisid", "bbox"}
    /\ bboxes \in IF mode = "bbox" THEN BoxLists ELSE {<<>>}
    /\ start_time \in StartTimes \cup {NoneDT}
    /\ end_time \in {NoneDT} \cup
          IF IsNone(start_time) THEN {DT(Week, "UTC")}
          ELSE {dt_add(start_time, d) : d \in Spans}
    /\ resolution \in Resolutions
    /\ pc = "created"
    /\ bi = 0
    /\ cur = NoChunk
    /\ lims = mk_limits(NoneDT, NoneDT, resolution)
    /\ chunks = <<>>
    /\ requests = <<>>
    /\ outcomes = <<>>
    /\ recent = <<>>
    /\ session = [opened |-> FALSE, closes |-> 0, exited |-> FALSE]
    /\ entry = "chunked"
    /\ query_id = ""
    /\ pulled = <<>>
    /\ yielded = 0
    /\ parsed = <<>>
    /\ ppc = "none"
    /\ raised = NoError
    /\ ret = NotReturned
    /\ call = NoCall
    /\ params = NoParams

Next ==
    \/ ChunkedOpenEnded
    \/ ChunkedOpenEndedReturn
    \/ ChunkedFirst
    \/ ChunkedLoop
    \/ BboxOpenEnded
    \/ BboxOpenEndedNext
    \/ BboxFirst
    \/ BboxNextBox
    \/ BboxNextChunk
    \/ NextFinished
    \/ Close

Spec == Init /\ [][Next]_vars

----------------------------------------------------------------------------
(* The documents and the multipoint retrievals explored.  Record i of a    *)
(* positions block is at station A (odd i) or B (even i), hour i - 1; the  *)
(* blocks hold a blank line after their first record; the cell of record i *)
(* and field j reads 10 * i + j, or NaN when i + j is a multiple of 3.     *)

Srs == "http://www.opengis.net/def/crs/EPSG/0/4258"

PointA == SamplingPoint(<<"point", "7">>, "60", "24", Srs)
PointB == SamplingPoint(<<"point", "8">>, "61", "25", Srs)

FieldNames == <<"GLOB_1MIN", "DIFF_1MIN", "DIR_1MIN", "NET_1MIN">>

with_blank(lines) ==
    IF Len(lines) = 0 THEN <<>>
    ELSE <<lines[1], <<>>>> \o SubSeq(lines, 2, Len(lines))

position_lines(n) ==
    with_blank([i \in 1..n |->
        IF i % 2 = 1 THEN <<"60", "24", ToString((i - 1) * Hour)>>
        ELSE <<"61", "25", ToString((i - 1) * Hour)>>])

data_lines(m, p) ==
    with_blank([i \in 1..m |->
        [j \in 1..p |-> IF (i + j) % 3 = 0 THEN "NaN" ELSE ToString(10 * i + j)]])

Coverage(feature, container, points, n, m, p) ==
    Document(TRUE, feature, container, points, TRUE, SubSeq(FieldNames, 1, p),
             position_lines(n), data_lines(m, p))

NoCoverage(feature, container, points) ==
    Document(TRUE, feature, container, points, FALSE, <<>>, <<>>, <<>>)

\* An answer without a member (numberReturned = 0).
NoMember == Document(FALSE, "missing", "pointMember", <<>>, FALSE, <<>>, <<>>, <<>>)

\* Record counts of the two blocks: equal, or one record apart.
RecordCounts ==
    {nm \in (0..MaxRecords) \X (0..MaxRecords) :
        nm[1] - nm[2] \in {0 - 1, 0, 1}}

\* Point lists of sampling features: both stations; station A only; an
\* identifier with two '-'; identifiers whose second piece is no number;
\* an identifier without '-'.
PointLists ==
    {<<PointA, PointB>>,
     <<PointA>>,
     <<SamplingPoint(<<"point", "1", "7">>, "60", "24", Srs), PointB>>,
     <<SamplingPoint(<<"obs", "point", "7">>, "60", "24", Srs), PointB>>,
     <<SamplingPoint(<<"point7">>, "60", "24", Srs), PointB>>}

ForecastFeature == "sampling-feature-1-1-geoid"

Docs ==
    {NoMember}
    \cup {Coverage(FmisidFeature, "pointMember", <<PointA, PointB>>, nm[1], nm[2], 1) :
             nm \in RecordCounts}
    \cup {Coverage(FmisidFeature, "pointMember", <<PointA, PointB>>, n, n, 2) :
             n \in 1..MaxRecords}
    \cup {Coverage(FmisidFeature, "pointMember", pts, MaxRecords, MaxRecords, 1) :
             pts \in PointLists}
    \cup {[Coverage(FmisidFeature, "pointMember", <<PointA, PointB>>, 1, 1, 2)
             EXCEPT !.data = <<<<"11">>>>]}
    \cup {Coverage(ForecastFeature, "pointMembers", <<PointA, PointB>>, n, n, 1) :
             n \in 0..MaxRecords}
    \cup {NoCoverage(FmisidFeature, "pointMember", <<PointA, PointB>>),
          NoCoverage(ForecastFeature, "pointMembers", <<PointA, PointB>>),
          NoCoverage("missing", "pointMember", <<>>),
          NoCoverage(ForecastFeature, "pointMembers",
                     <<PointA, SamplingPoint(<<"point", "8">>, "61", "25", "EPSG::3067")>>)}

QueryIds ==
    {"fmi::observations::radiation",
     "fmi::forecast::silam::airquality::surface::point"}

\* (start_time, end_time) of the calls: a bound left out, one hour and two
\* hours; 03:00 in Helsinki is 00:00 UTC.
Windows ==
    {<<NoneDT, DT(2 * Hour, "UTC")>>, <<DT(0, "UTC"), NoneDT>>,
     <<DT(3 * Hour, "HEL"), DT(Hour, "UTC")>>,
     <<DT(0, "UTC"), DT(2 * Hour, "UTC")>>}

PipelineInit ==
    /\ entry \in {"multipoint", "multipoint_all"}
    /\ query_id \in IF entry = "multipoint" THEN QueryIds
                    ELSE {"fmi::observations::radiation"}
    /\ mode = IF entry = "multipoint" THEN "fmisid" ELSE "bbox"
    /\ bboxes = <<>>
    /\ \E w \in IF entry = "multipoint" THEN Windows
                ELSE {<<DT(0, "UTC"), DT(2 * Hour, "UTC")>>} :
          start_time = w[1] /\ end_time = w[2]
    /\ resolution = Hour
    /\ pc = "created"
    /\ bi = 0
    /\ cur = NoChunk
    /\ lims = mk_limits(NoneDT, NoneDT, resolution)
    /\ chunks = <<>>
    /\ requests = <<>>
    /\ outcomes = <<>>
    /\ recent = <<>>
    /\ session = [opened |-> FALSE, closes |-> 0, exited |-> FALSE]
    /\ pulled = <<>>
    /\ yielded = 0
    /\ parsed = <<>>
    /\ ppc = "created"
    /\ raised = NoError
    /\ ret = NotReturned
    /\ call = NoCall
    /\ params = NoParams

PipelineNext ==
    \/ \E d \in Docs : ParserPullDoc(d)
    \/ ParserPullError
    \/ ParserPullStop
    \/ ParserYield
    \/ ParserRaise

PipelineSpec == PipelineInit /\ [][PipelineNext]_vars

----------------------------------------------------------------------------
(* The direct calls of get_stored_query explored.                          *)

Places ==
    {IntPlace(100971),
     TuplePlace(<<190, 590, 220, 620>>),
     TuplePlace(<<305, 645, 190, 590>>)}

\* None, 00:00 UTC, 15:01:30 in Helsinki in summer time (12:01:30 UTC) and
\* 05:00 in Helsinki three days later, in winter time (03:00 UTC).
CallTimes ==
    {NoneDT, DT(0, "UTC"), DT(15 * Hour + 90, "HEL"), DT(3 * Day + 5 * Hour, "HEL")}

CallResolutions == {None, Some(90), Some(10 * 60), Some(Hour), Some(Day)}

CallParameters ==
    {None, Some(<<>>), Some(<<"t2m">>), Some(<<"t2m", "ws_10min">>)}

CallQueryIds ==
    {"fmi::observations::weather::simple",
     "fmi::observations::weather::monthly::30year::simple"}

ParamsInit ==
    /\ call \in [query_id : CallQueryIds, place : Places, start_time : CallTimes,
                 end_time : CallTimes, resolution : CallResolutions,
                 parameters : CallParameters, called : {FALSE}]
    /\ params = NoParams
    /\ entry = "get_stored_query"
    /\ query_id = call.query_id
    /\ mode = "fmisid"
    /\ bboxes = <<>>
    /\ start_time = call.start_time
    /\ end_time = call.end_time
    /\ resolution = Hour
    /\ pc = "created"
    /\ bi = 0
    /\ cur = NoChunk
    /\ lims = mk_limits(NoneDT, NoneDT, resolution)
    /\ chunks = <<>>
    /\ requests = <<>>
    /\ outcomes = <<>>
    /\ recent = <<>>
    /\ session = [opened |-> FALSE, closes |-> 0, exited |-> FALSE]
    /\ pulled = <<>>
    /\ yielded = 0
    /\ parsed = <<>>
    /\ ppc = "none"
    /\ raised = NoError
    /\ ret = NotReturned

ParamsNext == GetStoredQuery

ParamsSpec == ParamsInit /\ [][ParamsNext]_vars

----------------------------------------------------------------------------
(* What the claims speak of.                                               *)

BothGiven == ~IsNone(start_time) /\ ~IsNone(end_time)

\* _mk_limits has run its checks and let the resolution pass.
PlannerAccepted ==
    /\ BothGiven
    /\ lims.pc # "unstarted"
    /\ check_resolution(total_seconds(resolution)) = "ok"

Abs(n) == IF n < 0 THEN 0 - n ELSE n

\* The instants start + k * resolution inside [start, end].
Instants ==
    LET s == timestamp(start_time)
        e == timestamp(end_time)
    IN  {s + k * Abs(resolution) : k \in 0..((e - s) \div Abs(resolution))}

InWindow(t, c) == timestamp(c.start) <= t /\ t <= timestamp(c.end)

\* C1: for start <= end and a resolution the validity check accepts, the
\* chunks are strictly ascending, do not overlap, each starts exactly one
\* resolution after the end of the one before it, and once the planner has
\* returned every instant start + k * resolution of [start, end] lies in
\* exactly one chunk.
C1_ChunksPartitionRange ==
    (PlannerAccepted /\ timestamp(start_time) <= timestamp(end_time)) =>
        /\ \A k \in 1..(Len(chunks) - 1) :
              /\ timestamp(chunks[k].start) < timestamp(chunks[k + 1].start)
              /\ timestamp(chunks[k].end) < timestamp(chunks[k + 1].start)
              /\ timestamp(chunks[k + 1].start)
                    = timestamp(chunks[k].end) + resolution
        /\ lims.pc = "finished" =>
              \A t \in Instants :
                 Cardinality({k \in 1..Len(chunks) : InWindow(t, chunks[k])}) = 1

\* C1 for the resolutions above zero only (not the claim: what is left of it).
C1_PositiveOnly == resolution > 0 => C1_ChunksPartitionRange

\* C2: every chunk has start <= end and spans at most
\* min(168 * resolution, 7 days), for every accepted resolution.
C2_ChunkSpanCapped ==
    PlannerAccepted =>
        \A k \in 1..Len(chunks) :
           /\ timestamp(chunks[k].start) <= timestamp(chunks[k].end)
           /\ timestamp(chunks[k].end) - timestamp(chunks[k].start)
                 <= Min(168 * resolution, 7 * 24 * 60 * 60)

C2_PositiveOnly == resolution > 0 => C2_ChunkSpanCapped

\* The timestamps spaced by the resolution in the inclusive window of c.
WindowCount(c) ==
    (timestamp(c.end) - timestamp(c.start)) \div Abs(resolution) + 1

\* C3: the inclusive window of every chunk holds at most 168 timestamps
\* spaced by the resolution.
C3_AtMost168PerChunk ==
    PlannerAccepted => \A k \in 1..Len(chunks) : WindowCount(chunks[k]) <= 168

\* The resolutions the divisibility invariant allows, as the specification
\* words it.
SatisfiesInvariant(r) ==
    \/ r = 3600
    \/ r > 3600 /\ PyMod(86400, r) = 0
    \/ r < 3600 /\ r # 0 /\ PyMod(3600, r) = 0

\* The first next() of a retrieval with both bounds given has been answered:
\* _mk_limits has judged the resolution.
Judged == BothGiven /\ Len(outcomes) >= 1

\* C4: _mk_limits accepts r exactly when r = 3600, or r > 3600 divides 86400,
\* or r < 3600 divides 3600, and raises ValueError otherwise; 7 minutes, 5
\* hours and everything above 24 hours are rejected, 1 hour, 10 minutes and
\* 24 hours accepted.
C4_AcceptsExactlyDivisors ==
    Judged =>
        /\ SatisfiesInvariant(resolution) =>
              outcomes[1].kind \in {"document", "HTTPError", "RuntimeError"}
        /\ ~SatisfiesInvariant(resolution) => outcomes[1].kind = "ValueError"
        /\ resolution \in {7 * 60, 5 * 3600} => outcomes[1].kind = "ValueError"
        /\ resolution > 24 * 3600 => outcomes[1].kind = "ValueError"
        /\ resolution \in {3600, 10 * 60, 24 * 3600} =>
              outcomes[1].kind # "ValueError"

\* C4 with resolution zero left out (not the claim: what is left of it).
C4_NonZero == resolution # 0 => C4_AcceptsExactlyDivisors

\* C5: a retrieval whose resolution violates the divisibility invariant
\* fails with ValueError before any HTTP request, whatever start_time and
\* end_time are, None included.
C5_InvalidResolutionBeforeRequest ==
    ~SatisfiesInvariant(resolution) =>
        /\ requests = <<>>
        /\ Len(outcomes) >= 1 => outcomes[1].kind = "ValueError"

\* C5 with both bounds given and a resolution other than zero (not the
\* claim: what is left of it).
C5_BoundedNonZero ==
    (BothGiven /\ resolution # 0) => C5_InvalidResolutionBeforeRequest

Documents == SelectSeq(outcomes, LAMBDA o : o.kind = "document")

\* The window a request asks for is the one of the chunk it is numbered by.
AsksForChunk(r) ==
    /\ r.chunk \in 1..Len(chunks)
    /\ r.starttime = chunks[r.chunk].start
    /\ r.endtime = chunks[r.chunk].end

\* C6: requests are issued one at a time in ascending chunk order, each
\* planned chunk at most once, and the documents are yielded in the order of
\* the chunks; in a bbox sweep every box of chunk i is requested, in list
\* order, before any box of chunk i + 1.
C6_RequestsInChunkOrder ==
    /\ \A k \in 2..Len(requests) : requests[k - 1].ok
    /\ \A i \in 1..Len(Documents) : Documents[i].doc = i /\ requests[i].ok
    /\ Len(requests) <= Len(Documents) + 1
    /\ (BothGiven /\ mode = "fmisid") =>
          \A k \in 1..Len(requests) :
             /\ requests[k].chunk = k
             /\ requests[k].place = Fmisid
             /\ AsksForChunk(requests[k])
    /\ (BothGiven /\ mode = "bbox") =>
          \A k \in 1..Len(requests) :
             /\ requests[k].chunk = ((k - 1) \div Len(bboxes)) + 1
             /\ requests[k].place = Bbox(bboxes[((k - 1) % Len(bboxes)) + 1])
             /\ AsksForChunk(requests[k])

\* C6 is met by a sweep of two boxes that has gone through two chunks.
C6_Witness ==
    /\ mode = "bbox" /\ Len(bboxes) = 2 /\ BothGiven
    /\ Len(requests) = 4 /\ Len(Documents) = 4
    /\ requests[4].chunk = 2 /\ requests[4].place = Bbox(bboxes[2])

\* C7: request k is issued only in the k-th next() of the consumer, so there
\* are never more requests than elements asked for, and a consumer that has
\* stopped causes no further request.
C7_Lazy ==
    /\ Len(requests) <= Len(outcomes)
    /\ \A k \in 1..Len(requests) :
          /\ outcomes[k].kind \in {"document", "HTTPError"}
          /\ outcomes[k].doc = k
          /\ ~outcomes[k].late

\* C7 is met by a consumer that took two documents of a longer retrieval,
\* dropped the generator and asked again.
C7_Witness ==
    /\ pc = "closed" /\ lims.pc = "suspended"
    /\ Len(requests) = 2 /\ Len(outcomes) > 2

\* C8: get_stored_query_chunked sleeps 1 second before every request but the
\* first and not before the first; get_stored_query_chunked_bbox sleeps at
\* least 0.5 seconds between two box requests, and 1 second more between the
\* last box of a chunk and the first box of the next.  (Half seconds.)
C8_Pacing ==
    /\ \A k \in 1..Len(requests) :
          mode = "fmisid" => requests[k].slept = (IF k = 1 THEN 0 ELSE 2)
    /\ \A k \in 2..Len(requests) :
          mode = "bbox" =>
             /\ requests[k].slept >= 1
             /\ requests[k].chunk # requests[k - 1].chunk =>
                   requests[k].slept = 1 + 2

\* C8 is met by a sweep that has moved on to its second chunk.
C8_Witness ==
    /\ mode = "bbox" /\ Len(requests) >= 3
    /\ requests[Len(requests)].chunk = 2
    /\ requests[Len(requests) - 1].chunk = 1

RateLimit == 600                \* requests ...
RateWindow == 5 * 60 * 2        \* ... in 5 minutes, in half seconds

C10_FailureEndsRetrieval ==
    \A k \in 1..Len(requests) :
       ~requests[k].ok =>
          /\ k = Len(requests)
          /\ pc = "finished"
          /\ outcomes[k].kind = "HTTPError"
          /\ \A j \in (k + 1)..Len(outcomes) :
                outcomes[j].kind = "StopIteration" /\ outcomes[j].doc = 0
          /\ \A j \in 1..(k - 1) : requests[j] # [requests[k] EXCEPT !.ok = TRUE]

\* C10 is met by a retrieval whose second chunk failed with chunks left to
\* plan, iterated again afterwards.
C10_Witness ==
    /\ Len(requests) = 2 /\ ~requests[2].ok /\ requests[2].chunk = 2
    /\ lims.pc = "suspended"
    /\ Len(outcomes) > 2

\* C11: when start_time or end_time is None, get_stored_query_chunked issues
\* exactly one request, whatever the resolution: nothing before the first
\* next(), one from then on, never a second; the request was issued without a
\* pacing sleep, carries the bound that was given and omits the absent one,
\* and no time other than the latency of the answer passes.
C11_OpenEndedSingleRequest ==
    (mode = "fmisid" /\ ~BothGiven) =>
        /\ Len(requests) = (IF pc = "created" THEN 0 ELSE 1)
        /\ \A i \in 1..Len(requests) :
              /\ requests[i].slept = 0
              /\ requests[i].chunk = 0
              /\ IsNone(requests[i].starttime) <=> IsNone(start_time)
              /\ IsNone(requests[i].endtime) <=> IsNone(end_time)
              /\ ~IsNone(start_time) =>
                    requests[i].starttime = astimezone(start_time)
              /\ ~IsNone(end_time) =>
                    requests[i].endtime = astimezone(end_time)
        /\ \A i \in 1..Len(recent) : recent[i] <= MaxLatency

\* The single request of an open-ended retrieval with a resolution the
\* planner would refuse has been answered and the generator has returned
\* after being drained.
C11_Witness ==
    /\ mode = "fmisid" /\ IsNone(start_time) /\ ~IsNone(end_time)
    /\ resolution = 7 * 60
    /\ Len(requests) = 1 /\ requests[1].ok
    /\ Len(outcomes) = 3 /\ outcomes[2].kind = "StopIteration"

\* ceil(a / b) for b > 0.
CeilDiv(a, b) == 0 - ((0 - a) \div b)

\* The instants of the grid of period resolution (whole multiples of it,
\* counted from a midnight UTC) in [a, b].
GridInstants(a, b) ==
    {k * resolution : k \in CeilDiv(a, resolution)..(b \div resolution)}

Covered(t) == \E k \in 1..Len(chunks) : InWindow(t, chunks[k])

\* C21: with observations on the grid of period resolution, no grid instant
\* lies strictly between the end of a chunk and the start of the next one,
\* and once the planner has returned every grid instant of [start, end] is
\* inside the window of some chunk, also for a start_time off the grid.
C21_NoGridInstantBetweenChunks ==
    (PlannerAccepted /\ resolution > 0
        /\ timestamp(start_time) <= timestamp(end_time)) =>
        /\ \A k \in 1..(Len(chunks) - 1) :
              GridInstants(timestamp(chunks[k].end) + 1,
                           timestamp(chunks[k + 1].start) - 1) = {}
        /\ lims.pc = "finished" =>
              \A t \in GridInstants(timestamp(start_time), timestamp(end_time)) :
                 Covered(t)

\* C21 for a start_time on the grid (not the claim: what is left of it).
C21_StartOnGrid ==
    (~IsNone(start_time) /\ resolution > 0
        /\ timestamp(start_time) % resolution = 0) =>
        C21_NoGridInstantBetweenChunks

\* C22: for every resolution the validity check lets pass and start <= end
\* the planner yields finitely many chunks.  The cursor `start` is all the
\* state the loop has and the loop ends when it is past end_time, so the
\* planner ends exactly when the cursor moves forward at every pass: every
\* chunk starts later than the one before it.
C22_PlannerTerminates ==
    (PlannerAccepted /\ timestamp(start_time) <= timestamp(end_time)) =>
        \A k \in 1..(Len(chunks) - 1) :
           timestamp(chunks[k].start) < timestamp(chunks[k + 1].start)

\* C22 for the resolutions above zero only (not the claim: what is left of
\* it).
C22_PositiveOnly == resolution > 0 => C22_PlannerTerminates

\* The planner yields the same chunk a second time: the cursor is where it
\* was a pass before, and the loop never ends.
C22_SameChunkAgain ==
    /\ PlannerAccepted /\ timestamp(start_time) <= timestamp(end_time)
    /\ \E k \in 1..(Len(chunks) - 1) : chunks[k] = chunks[k + 1]

\* C23: for every resolution the validity check lets pass, the timestep of
\* every request is at least 1 and timestep * 60 seconds is the resolution
\* the planner advances by.
C23_TimestepIsResolution ==
    PlannerAccepted =>
        \A k \in 1..Len(requests) :
           /\ requests[k].timestep >= 1
           /\ requests[k].timestep * 60 = total_seconds(resolution)

\* C23 for the resolutions of whole minutes above zero (not the claim: what
\* is left of it).
C23_WholeMinutes ==
    (resolution > 0 /\ resolution % 60 = 0) => C23_TimestepIsResolution

\* A request of a retrieval at 30 seconds asks the service for timestep 0.
C23_SubMinuteTimestepZero ==
    /\ PlannerAccepted /\ resolution = 30
    /\ \E k \in 1..Len(requests) : requests[k].timestep = 0

\* The retrieval generator has left its `with init_session() as s` block.
RetrievalEnded == pc \in {"finished", "closed"}

\* C24: the session of a retrieval stays open across all of its requests
\* and is closed exactly once, when the retrieval ends (after the last
\* request, at its failure or when it is abandoned): it has not been closed
\* while the retrieval is under way and has been closed once afterwards.
C24_SessionClosedOnceAtEnd ==
    /\ ~RetrievalEnded => session.closes = 0
    /\ RetrievalEnded => session.closes = 1

\* What the code does (not the claim): the session is closed after every
\* request, by query_wfs, and once more when the retrieval ends.
C24_ClosedAfterEveryRequest ==
    /\ session.exited <=> RetrievalEnded
    /\ session.closes = Len(requests) + (IF session.exited THEN 1 ELSE 0)

\* A retrieval under way issues its second request on a session that was
\* closed after the first.
C24_ClosedBetweenRequests ==
    /\ ~RetrievalEnded /\ BothGiven /\ mode = "fmisid"
    /\ Len(requests) = 2 /\ requests[2].chunk = 2
    /\ session.closes = 2

\* The exceptions a retrieval can end with before its first request.
PlannerErrors == {"RuntimeError", "ValueError", "ZeroDivisionError"}

\* C25: with both bounds given and start_time later than end_time the
\* planner yields no chunk and no HTTP request is issued; the first next()
\* of the consumer gets an error, not the end of an empty sequence of
\* documents, and the retrieval is over.
C25_StartAfterEndIsError ==
    (BothGiven /\ timestamp(start_time) > timestamp(end_time)) =>
        /\ chunks = <<>>
        /\ requests = <<>>
        /\ \A i \in 1..Len(outcomes) : outcomes[i].kind # "document"
        /\ Len(outcomes) >= 1 =>
              /\ outcomes[1].kind \in PlannerErrors
              /\ pc = "finished"
              /\ lims.pc = "finished"

\* C25 is met by an hourly retrieval whose end_time is an hour before its
\* start_time: the planner returned at once, the consumer got RuntimeError
\* and asked again.
C25_Witness ==
    /\ BothGiven /\ timestamp(start_time) > timestamp(end_time)
    /\ resolution = Hour
    /\ Len(outcomes) = 2 /\ outcomes[1].kind = "RuntimeError"
    /\ lims.pc = "finished" /\ chunks = <<>> /\ requests = <<>>

----------------------------------------------------------------------------
(* The coverage decoder and the multipoint retrievals (PipelineSpec).      *)

\* The records of the two blocks of a coverage.
Positions(doc) == get_space_separated(doc.positions)
DataRecords(doc) == get_space_separated(doc.data)

HasCoverage(doc) == doc.member /\ doc.coverage

Mismatch(doc) == HasCoverage(doc) /\ Len(Positions(doc)) # Len(DataRecords(doc))

FatalErrors == {"ValueError", "IndexError", "HTTPError"}

\* C12: a coverage whose positions block and data block hold different
\* numbers of non-blank records never decodes to a result: decoding it is
\* left by an error, whichever block is longer; the parser never goes on to
\* another document, never returns, no list is returned, and the error that
\* ends the retrieval is a fatal error of that document.
C12_RecordCountMismatchIsFatal ==
    \A n \in 1..Len(pulled) :
        Mismatch(pulled[n]) =>
            /\ n = Len(pulled)
            /\ parser(pulled[n]).err \in FatalErrors
            /\ ~AtNextElem
            /\ ppc # "finished" /\ ~ret.done
            /\ ppc = "failed" => raised.elem = n /\ raised.err \in FatalErrors

\* A coverage with one position record and two data records has been
\* decoded up to its error, after the tuple of the first record.
C12_Witness ==
    /\ Len(pulled) = 2
    /\ Len(Positions(elem)) = 1 /\ Len(DataRecords(elem)) = 2
    /\ HasCoverage(elem)
    /\ ppc = "failed" /\ raised = [err |-> "ValueError", elem |-> 2]
    /\ yielded = 1

\* The documents the parser can place: for parse_multipoint_fmisids the
\* fmisid sampling feature with well-formed point identifiers that lists
\* the coordinate of every position record, for parse_multipoint_points
\* points with one srsName.
Resolvable(doc) ==
    IF entry = "multipoint" /\ has_forecast(query_id)
    THEN /\ doc.feature # "missing" /\ doc.container = "pointMembers"
         /\ Cardinality({doc.points[i].srs : i \in 1..Len(doc.points)}) = 1
    ELSE /\ doc.feature = FmisidFeature
         /\ doc.container = "pointMember"
         /\ \A i \in 1..Len(doc.points) :
               Len(doc.points[i].id) >= 2 /\ is_int(doc.points[i].id[2])
         /\ \A r \in 1..Len(Positions(doc)) :
               \E i \in 1..Len(doc.points) :
                  doc.points[i].pos = <<Positions(doc)[r][1], Positions(doc)[r][2]>>

\* n position records, n data records, each of p columns.
Aligned(doc) ==
    /\ HasCoverage(doc)
    /\ Len(Positions(doc)) = Len(DataRecords(doc))
    /\ \A i \in 1..Len(DataRecords(doc)) : Len(DataRecords(doc)[i]) = Len(doc.fields)

\* The tuples the parser has yielded of the n-th document.
TuplesOf(n) == SelectSeq(parsed, LAMBDA t : t.elem = n)

\* The parser is through with the n-th document.
DoneWith(n) == n < Len(pulled) \/ (n = Len(pulled) /\ ppc = "finished")

\* What the documents say at record i, column j.
CellValue(doc, i, j) ==
    LET text == DataRecords(doc)[i][j]
    IN  IF text = "NaN" THEN NaN ELSE Num(NumberOf[text])
CellTime(doc, i) == DT(NumberOf[Positions(doc)[i][3]], "UTC")

\* C13: of a coverage with n position records, n data records and p
\* parameters the parser yields, in record-major order, for record i and
\* parameter j the timestamp of position record i, the j-th parameter name
\* and the j-th column of data record i, the no-data value NaN included; when
\* the parser is through with the document it has yielded exactly n * p
\* tuples of it, and no error of the document has left the parser.
C13_AlignedCoverageDecodesRecordMajor ==
    \A n \in 1..Len(pulled) :
        LET doc == pulled[n]
            p == Len(doc.fields)
            tuples == TuplesOf(n)
        IN  Aligned(doc) =>
                /\ \A q \in 1..Len(tuples) :
                      LET i == ((q - 1) \div p) + 1
                          j == ((q - 1) % p) + 1
                      IN  /\ i <= Len(Positions(doc))
                          /\ tuples[q].dt = CellTime(doc, i)
                          /\ tuples[q].k = doc.fields[j]
                          /\ tuples[q].v = CellValue(doc, i, j)
                /\ Resolvable(doc) =>
                      /\ raised.elem # n
                      /\ DoneWith(n) => Len(tuples) = Len(Positions(doc)) * p

\* The parser is through with a coverage of two records and two parameters
\* and has yielded its four tuples, NaN among the values.
C13_Witness ==
    /\ ppc = "finished"
    /\ Aligned(elem) /\ Resolvable(elem)
    /\ Len(Positions(elem)) = 2 /\ Len(elem.fields) = 2
    /\ Len(TuplesOf(Len(pulled))) = 4
    /\ \E q \in 1..Len(parsed) : parsed[q].v = NaN

FmisidsParser == ~(entry = "multipoint" /\ has_forecast(query_id))

\* C14: parse_multipoint_fmisids yields each decoded tuple of a document
\* with the station that the sampling feature of that same document lists
\* at the tuple's (lat, lon); it yields no tuple of an unlisted coordinate
\* and skips none: short of the decoded tuples it stops only by raising
\* ValueError at the first unlisted coordinate.
C14_StationsOfTheSameDocument ==
    FmisidsParser =>
        \A n \in 1..Len(pulled) :
            LET fm == get_fmisid_map(pulled[n])
                decoded == parse_multipoint(pulled[n]).items
                tuples == TuplesOf(n)
            IN  (pulled[n].member /\ fm.err = "none") =>
                    /\ Len(tuples) <= Len(decoded)
                    /\ \A q \in 1..Len(tuples) :
                          /\ Coord(decoded[q]) \in DOMAIN fm.mapping
                          /\ tuples[q].who.fmisid = fm.mapping[Coord(decoded[q])]
                          /\ tuples[q].dt = decoded[q].ts
                          /\ tuples[q].k = decoded[q].k
                          /\ tuples[q].v = decoded[q].v
                    /\ DoneWith(n) => Len(tuples) = Len(decoded)
                    /\ (raised.elem = n /\ Len(tuples) < Len(decoded)) =>
                          /\ raised.err = "ValueError"
                          /\ Coord(decoded[Len(tuples) + 1]) \notin DOMAIN fm.mapping

\* Two documents that list the coordinate (60, 24) under different stations
\* have been decoded, each tuple with the station of its own document.
C14_Witness ==
    /\ FmisidsParser
    /\ Len(pulled) = 2 /\ ppc = "finished"
    /\ get_fmisid_map(pulled[1]).err = "none"
    /\ get_fmisid_map(pulled[2]).err = "none"
    /\ <<Num(60), Num(24)>> \in DOMAIN get_fmisid_map(pulled[1]).mapping
    /\ <<Num(60), Num(24)>> \in DOMAIN get_fmisid_map(pulled[2]).mapping
    /\ get_fmisid_map(pulled[1]).mapping[<<Num(60), Num(24)>>] #
          get_fmisid_map(pulled[2]).mapping[<<Num(60), Num(24)>>]
    /\ Len(TuplesOf(1)) > 0 /\ Len(TuplesOf(2)) > 0

\* The retrieval has been left by the unknown-station error at the second
\* record of a document that lists only the station of the first.
C14_UnknownStationReached ==
    /\ FmisidsParser
    /\ ppc = "failed" /\ raised.err = "ValueError" /\ raised.elem = Len(pulled)
    /\ get_fmisid_map(elem).err = "none"
    /\ Len(TuplesOf(Len(pulled))) = 1
    /\ Aligned(elem)

\* The timestamps of the list get_stored_query_multipoint returned.
DistinctTimes == {ret.list[i].dt : i \in 1..Len(ret.list)}

Returned == entry = "multipoint" /\ ret.done

\* C15: with both bounds given, get_stored_query_multipoint has logged the
\* completeness warning whenever the list it returns holds fewer distinct
\* timestamps than there are instants start + k * resolution in
\* [start_time, end_time], both ends included.
C15_WarnsWhenTimestampsMissing ==
    (Returned /\ BothGiven /\ Cardinality(DistinctTimes) < Cardinality(Instants))
        => ret.warned

\* Short of the case where the result lacks exactly the last instant's worth
\* (distinct timestamps = (end - start) / resolution), the warning is
\* logged whenever timestamps are missing.
C15_ExceptOneShort ==
    (Returned /\ BothGiven /\ Cardinality(DistinctTimes) < Cardinality(Instants)
       /\ Cardinality(DistinctTimes) * resolution #
             timestamp(end_time) - timestamp(start_time))
        => ret.warned

\* The observation tuples the caller of the entry point holds: those the
\* iterator has handed over, or the list that was returned.
Received == IF entry = "multipoint_all" THEN parsed ELSE ret.list

\* What decoding the n-th document yields, as the parser hands it on.
YieldOf(n) ==
    LET items == parser(pulled[n]).items
    IN  [i \in 1..Len(items) |-> items[i] @@ [elem |-> n]]

\* C16 (as stated): when a fatal error has ended a retrieval, through
\* either entry point, the caller has the error and holds no observation
\* tuple of that retrieval.
C16_NoTupleBeforeError ==
    ppc = "failed" => raised.err \in FatalErrors /\ Received = <<>>

\* C16 (amended): a fatal error is never turned into a result: a document
\* whose decoding raises is the last one taken and the retrieval neither
\* returns nor goes on; the caller gets the error; the caller of
\* get_stored_query_multipoint holds no tuple, the caller of the iterator
\* get_stored_query_multipoint_all holds exactly the tuples yielded before
\* the error, those of the earlier documents in full and those of the
\* failing document up to the error.
C16_ErrorNeverSwallowed ==
    /\ \A n \in 1..Len(pulled) :
          parser(pulled[n]).err # "none" =>
              n = Len(pulled) /\ ppc # "finished" /\ ~ret.done
    /\ ppc = "failed" =>
          /\ raised.err \in FatalErrors
          /\ ~ret.done /\ ret.list = <<>>
          /\ entry = "multipoint" => Received = <<>>
          /\ entry = "multipoint_all" =>
                /\ \A n \in 1..Len(pulled) : TuplesOf(n) = YieldOf(n)
                /\ \A q \in 1..(Len(Received) - 1) :
                      Received[q].elem <= Received[q + 1].elem

\* The iterator has handed over tuples of an earlier document and of the
\* first record of the failing document, then raised.
C16_Witness ==
    /\ entry = "multipoint_all"
    /\ ppc = "failed" /\ raised.elem = 2
    /\ Len(TuplesOf(1)) > 0 /\ Len(TuplesOf(2)) > 0


\* The points parse_multipoint_fmisids reads the stations from.
StationPoints(doc) == find_points(doc, "pointMember")

\* The identifier ends in -<station_id>.
EndsInStationId(id) == Len(id) >= 2 /\ is_int(id[Len(id)])

\* The sampling feature of the document is read and every point identifier
\* ends in -<station_id>, of at most `pieces` pieces.
StationsReadable(doc, pieces) ==
    /\ doc.member /\ doc.feature = FmisidFeature
    /\ \A i \in 1..Len(StationPoints(doc)) :
          /\ EndsInStationId(StationPoints(doc)[i].id)
          /\ Len(StationPoints(doc)[i].id) <= pieces

\* Each coordinate is bound to the number after the final '-' of (the last
\* of) the points at it.
BoundToLastPiece(doc) ==
    LET pts == StationPoints(doc)
        fm == get_fmisid_map(doc)
    IN  /\ fm.err = "none"
        /\ \A i \in 1..Len(pts) :
              LET c == <<py_float(pts[i].pos[1]), py_float(pts[i].pos[2])>>
              IN  \/ \E j \in (i + 1)..Len(pts) : pts[j].pos = pts[i].pos
                  \/ /\ c \in DOMAIN fm.mapping
                     /\ fm.mapping[c] = NumberOf[pts[i].id[Len(pts[i].id)]]

\* C18: the station bound to a sampling-feature point is the number after
\* the final '-' of the point's identifier, for every identifier that ends
\* in -<station_id>, identifiers with more than one '-' included.
C18_StationIdAfterFinalDash ==
    FmisidsParser =>
        \A n \in 1..Len(pulled) :
            StationsReadable(pulled[n], 3) => BoundToLastPiece(pulled[n])

\* For identifiers with exactly one '-' (point-<station_id>) the station
\* bound is the number after it.
C18_SingleDash ==
    FmisidsParser =>
        \A n \in 1..Len(pulled) :
            StationsReadable(pulled[n], 2) => BoundToLastPiece(pulled[n])


\* The n-th document gave no tuple and no error, and the parser went on, or
\* is about to go on, to the document after it.
EmptyAndPassed(n) ==
    /\ TuplesOf(n) = <<>>
    /\ raised.elem # n
    /\ (n = Len(pulled) /\ ppc = "running") => AtNextElem

C19_WitnessFmisids ==
    /\ FmisidsParser
    /\ Len(pulled) = 2 /\ ppc = "finished"
    /\ ~pulled[1].member
    /\ pulled[2].member /\ ~pulled[2].coverage
    /\ parsed = <<>>


\* C20: the completeness check leaves the outcome of
\* get_stored_query_multipoint alone: once obs is exhausted without an error
\* the function returns, warning or not, the tuples the parser yielded, all
\* of them and in their order, which are all the tuples of all the
\* documents; no error other than one of a request or of a document leaves
\* it; and with start_time or end_time None nothing is logged.
C20_CheckLeavesResultAlone ==
    entry = "multipoint" =>
        /\ ppc = "finished" =>
              /\ ret.done
              /\ ret.list = strip(parsed)
              /\ \A n \in 1..Len(pulled) : TuplesOf(n) = YieldOf(n)
              /\ Len(parsed) = Len(ret.list)
        /\ ppc = "failed" => raised.err = "HTTPError" \/ raised.elem >= 1
        /\ ~BothGiven => ~ret.warned

\* The check has found a shortfall and logged it, and the list of the two
\* tuples decoded has been returned.
C20_Witness ==
    /\ Returned /\ BothGiven
    /\ ret.warned
    /\ Len(ret.list) = 2 /\ ret.list = strip(parsed)

\* A result with no timestamp at all has been returned for a call without
\* start_time, and nothing was logged.
C20_WitnessSkipped ==
    /\ Returned /\ IsNone(start_time)
    /\ ret.list = <<>> /\ ~ret.warned

----------------------------------------------------------------------------
(* The request parameters (ParamsSpec).                                    *)

Keys == DOMAIN params

\* UTC text of an instant, seconds since 2014-10-23 00:00 UTC.
UtcText(dt) == strftime(DT(timestamp(dt), "UTC"))

\* C17: the parameters get_stored_query sends always hold service = WFS,
\* version = 2.0.0, request = getFeature and storedquery_id = the query id;
\* exactly one of fmisid (an int place, as text) and bbox (a tuple place,
\* its values joined by ',' in the given order); starttime exactly when
\* start_time is given and endtime exactly when end_time is given, each the
\* UTC reading of the instant whatever zone the argument is in; timestep
\* exactly when a resolution is given; parameters exactly when a non-empty
\* list is given, joined by ','; and nothing else.
C17_RequestParameters ==
    call.called =>
        /\ Keys \subseteq {"service", "version", "request", "storedquery_id",
                           "fmisid", "bbox", "starttime", "endtime",
                           "timestep", "parameters"}
        /\ {"service", "version", "request", "storedquery_id"} \subseteq Keys
        /\ params["service"] = "WFS" /\ params["version"] = "2.0.0"
        /\ params["request"] = "getFeature"
        /\ params["storedquery_id"] = call.query_id
        /\ ("fmisid" \in Keys) # ("bbox" \in Keys)
        /\ call.place.kind = "int" =>
              "fmisid" \in Keys /\ params["fmisid"] = ToString(call.place.fmisid)
        /\ call.place.kind = "tuple" =>
              /\ "bbox" \in Keys
              /\ params["bbox"] =
                    str_float(call.place.bbox[1]) \o "," \o
                    str_float(call.place.bbox[2]) \o "," \o
                    str_float(call.place.bbox[3]) \o "," \o
                    str_float(call.place.bbox[4])
        /\ ("starttime" \in Keys) <=> ~IsNone(call.start_time)
        /\ ("endtime" \in Keys) <=> ~IsNone(call.end_time)
        /\ "starttime" \in Keys => params["starttime"] = UtcText(call.start_time)
        /\ "endtime" \in Keys => params["endtime"] = UtcText(call.end_time)
        /\ ("timestep" \in Keys) <=> call.resolution.given
        /\ ("parameters" \in Keys) <=>
              (call.parameters.given /\ Len(call.parameters.value) > 0)
        /\ "parameters" \in Keys =>
              \/ params["parameters"] = call.parameters.value[1]
              \/ params["parameters"] =
                    call.parameters.value[1] \o "," \o call.parameters.value[2]

\* A call with a bounding box, a start time given in Helsinki summer time,
\* an end time in Helsinki winter time, no resolution and an empty
\* parameter list has been made.
C17_Witness ==
    /\ call.called
    /\ call.place = TuplePlace(<<305, 645, 190, 590>>)
    /\ params["bbox"] = "30.5,64.5,19.0,59.0"
    /\ call.start_time = DT(15 * Hour + 90, "HEL")
    /\ params["starttime"] = "2014-10-23T12:01:30Z"
    /\ call.end_time = DT(3 * Day + 5 * Hour, "HEL")
    /\ params["endtime"] = "2014-10-26T03:00:00Z"
    /\ call.resolution = None /\ call.parameters = Some(<<>>)
    /\ Keys = {"service", "version", "request", "storedquery_id", "bbox",
               "starttime", "endtime"}

====
